---- MODULE Spec2Model ----
(***************************************************************************)
(* Model of runner/call_template_data.go: the per-call template data       *)
(* (Call Context), the template function library and the two render entry  *)
(* points executeData / executeMetadata.                                   *)
(*                                                                         *)
(* Text is a sequence of characters (one-character strings).  The source   *)
(* text of a template action is abbreviated to the three atoms             *)
(* "{{", <body>, "}}"; none of them contains a quote or a backslash, so a   *)
(* JSON decoder sees them as ordinary characters.                          *)
(***************************************************************************)
EXTENDS Integers, Sequences, FiniteSets

(* ----------------------------- bounds ---------------------------------- *)
NegReq == 1           \* RequestNumbers down to -NegReq are handed to newCallTemplateData
MaxReq == 1           \* largest RequestNumber handed to newCallTemplateData
MaxLen == 3           \* longest sequence passed to a library function
MaxInt == 3           \* integer arguments of Range / RandomSliceK are -MaxInt..MaxInt
RndBound == 3         \* raw outputs of the random source are 0..RndBound-1

NoErr == "nil"

(* ------------------------- strconv / builtins --------------------------- *)
Digits == <<"0", "1", "2", "3", "4", "5", "6", "7", "8", "9">>

DigitVal(c) == (CHOOSE i \in 1..10 : Digits[i] = c) - 1

IsDigit(c) == \E i \in 1..10 : Digits[i] = c

RECURSIVE NatStr(_)
NatStr(n) == IF n < 10 THEN <<Digits[n + 1]>>
             ELSE NatStr(n \div 10) \o <<Digits[(n % 10) + 1]>>

\* strconv.Itoa
Itoa(n) == IF n < 0 THEN <<"-">> \o NatStr(-n) ELSE NatStr(n)

RECURSIVE DigitsVal(_, _)
DigitsVal(s, acc) == IF s = <<>> THEN acc
                     ELSE DigitsVal(Tail(s), acc * 10 + DigitVal(Head(s)))

\* strconv.Atoi: optional sign, then one or more decimal digits
Atoi(s) ==
  LET body == IF s # <<>> /\ Head(s) \in {"-", "+"} THEN Tail(s) ELSE s
      neg  == s # <<>> /\ Head(s) = "-"
  IN IF body = <<>> \/ \E i \in 1..Len(body) : ~IsDigit(body[i])
     THEN [val |-> 0, err |-> "invalid syntax"]
     ELSE [val |-> IF neg THEN -DigitsVal(body, 0) ELSE DigitsVal(body, 0),
           err |-> NoErr]

\* Go integer division and remainder truncate toward zero (divisor > 0 here)
GoDiv(a, b) == IF a >= 0 THEN a \div b ELSE -((-a) \div b)

GoRem(a, b) == IF a >= 0 THEN a % b ELSE -((-a) % b)

\* rand.Intn(n) for n > 0, as a function of the raw output r of the source
Intn(n, r) == r % n

\* values[i]: a run-time panic when the index is out of range
Index(values, i) ==
  IF 0 <= i /\ i < Len(values)
  THEN [val |-> values[i + 1], err |-> NoErr]
  ELSE [val |-> <<>>, err |-> "panic: index out of range"]

\* values[s:e]: a run-time panic when the bounds are out of range
\* (the capacity of the slice is taken to be its length)
Slice(values, s, e) ==
  IF 0 <= s /\ s <= e /\ e <= Len(values)
  THEN [val |-> SubSeq(values, s + 1, e), err |-> NoErr]
  ELSE [val |-> <<>>, err |-> "panic: slice bounds out of range"]

(* --------------------------- function library --------------------------- *)
RECURSIVE RangeLoop(_, _, _, _)
RangeLoop(start, end, step, res) ==
  IF start < end
  THEN RangeLoop(start + step, end, step, Append(res, Itoa(start)))
  ELSE res

\* "Range"; make([]string, 0, n) panics when n is negative
Range(start, end, step) ==
  IF step <= 0 \/ start >= step
  THEN [val |-> <<>>, err |-> NoErr]
  ELSE IF GoDiv(end - start, step) + 1 < 0
       THEN [val |-> <<>>, err |-> "panic: makeslice: cap out of range"]
       ELSE [val |-> RangeLoop(start, end, step, <<>>), err |-> NoErr]

\* "ToInt"
ToInt(str) == Atoi(str)

\* "RandomChoice"
RandomChoice(values, r) ==
  IF Len(values) < 1
  THEN [val |-> <<>>, err |-> "values is empty"]
  ELSE Index(values, Intn(Len(values), r))

\* the start == end adjustment of "RandomSlice", as <<start, end>>
RandomSliceNoAdjust(start, end) == <<start, end>>

RandomSliceAdjust(start, end) ==
  IF start = 0 THEN <<start, end + 1>> ELSE <<start - 1, end>>

\* the window <<start, end>> "RandomSlice" takes for the draws a and b
RandomSliceWindow(n, ra, rb) ==
  LET start == Intn(n, ra)
      end   == Intn(n, rb)
  IN IF start > end THEN <<end, start>>
     ELSE IF start = end THEN RandomSliceAdjust(start, end)
     ELSE <<start, end>>

\* "RandomSlice"
RandomSlice(values, ra, rb) ==
  IF Len(values) < 1
  THEN [val |-> <<>>, err |-> "values is empty"]
  ELSE LET w == RandomSliceWindow(Len(values), ra, rb)
       IN Slice(values, w[1], w[2])

\* the first guard of "RandomSliceK"
TooShortOrEqual(n, k) == n <= k

TooShort(n, k) == n < k

\* "RandomSliceK"; rand.Intn panics when its argument is not positive
RandomSliceK(values, k, r) ==
  IF TooShort(Len(values), k)
  THEN [val |-> <<>>, err |-> "values must be longer than k"]
  ELSE IF Len(values) = k
       THEN [val |-> values, err |-> NoErr]
       ELSE LET start == Intn(Len(values) - k, r)
            IN Slice(values, start, start + k)

\* "RandomInt"
RandomInt(n, m, r) ==
  IF n < 0 \/ m < 1
  THEN [val |-> <<>>, err |-> "must be m > n >= 0"]
  ELSE IF m <= n
       THEN [val |-> <<>>, err |-> "m must > n"]
       ELSE [val |-> Itoa(Intn(m - n, r) + n), err |-> NoErr]

\* "RoundRobin": the closure reads td.RequestNumber; td is returned as the
\* closure leaves it
RoundRobinBump(values, td) ==
  IF Len(values) < 1
  THEN [val |-> <<>>, err |-> "values is empty", td |-> td]
  ELSE LET r == Index(values, GoRem(td.RequestNumber, Len(values)))
       IN [val |-> r.val, err |-> r.err,
           td |-> [td EXCEPT !.RequestNumber = @ + 1]]

RoundRobin(values, td) ==
  IF Len(values) < 1
  THEN [val |-> <<>>, err |-> "values is empty", td |-> td]
  ELSE LET r == Index(values, GoRem(td.RequestNumber, Len(values)))
       IN [val |-> r.val, err |-> r.err, td |-> td]

(* ------------------------------ encoding/json --------------------------- *)
Quote == "\""

RECURSIVE SkipWS(_, _)
SkipWS(s, i) == IF i <= Len(s) /\ s[i] = " " THEN SkipWS(s, i + 1) ELSE i

IsNullAt(s, i) == i + 3 <= Len(s) /\ SubSeq(s, i, i + 3) = <<"n", "u", "l", "l">>

\* a string literal starting at the quote s[i] (no escapes in the alphabet)
ParseString(s, i) ==
  LET closers == {j \in (i + 1)..Len(s) : s[j] = Quote}
  IN IF i > Len(s) \/ s[i] # Quote \/ closers = {}
     THEN [ok |-> FALSE, v |-> <<>>, next |-> i]
     ELSE LET j == CHOOSE c \in closers : \A d \in closers : c <= d
          IN [ok |-> TRUE, v |-> SubSeq(s, i + 1, j - 1), next |-> j + 1]

\* a member value decoded into a Go string: a JSON string is stored, a JSON
\* null leaves the zero value "" (when acceptNull), anything else is an error
ParseValue(s, i, acceptNull) ==
  IF i <= Len(s) /\ s[i] = Quote THEN ParseString(s, i)
  ELSE IF acceptNull /\ IsNullAt(s, i)
       THEN [ok |-> TRUE, v |-> <<>>, next |-> i + 4]
       ELSE [ok |-> FALSE, v |-> <<>>, next |-> i]

Put(m, k, v) == [x \in DOMAIN m \cup {k} |-> IF x = k THEN v ELSE m[x]]

\* the members of an object, from the first key at s[i] up to the closing brace
RECURSIVE ParseMembers(_, _, _, _)
ParseMembers(s, i, m, acceptNull) ==
  LET key == ParseString(s, i)
      c   == SkipWS(s, key.next)
      val == ParseValue(s, SkipWS(s, c + 1), acceptNull)
      e   == SkipWS(s, val.next)
  IN IF ~key.ok \/ c > Len(s) \/ s[c] # ":" \/ ~val.ok \/ e > Len(s)
     THEN [ok |-> FALSE, m |-> m, next |-> i]
     ELSE IF s[e] = "}"
          THEN [ok |-> TRUE, m |-> Put(m, key.v, val.v), next |-> e + 1]
          ELSE IF s[e] = ","
               THEN ParseMembers(s, SkipWS(s, e + 1), Put(m, key.v, val.v),
                                 acceptNull)
               ELSE [ok |-> FALSE, m |-> m, next |-> i]

\* decoding input into a nil map[string]string
Decode(input, acceptNull) ==
  LET i == SkipWS(input, 1)
      Fail == [err |-> "json error", nil |-> TRUE, m |-> <<>>]
  IN IF acceptNull /\ IsNullAt(input, i)
     THEN IF SkipWS(input, i + 4) > Len(input)
          THEN [err |-> NoErr, nil |-> TRUE, m |-> <<>>]
          ELSE Fail
     ELSE IF i > Len(input) \/ input[i] # "{" THEN Fail
     ELSE LET j == SkipWS(input, i + 1)
              r == IF j <= Len(input) /\ input[j] = "}"
                   THEN [ok |-> TRUE, m |-> <<>>, next |-> j + 1]
                   ELSE ParseMembers(input, j, <<>>, acceptNull)
          IN IF r.ok /\ SkipWS(input, r.next) > Len(input)
             THEN [err |-> NoErr, nil |-> FALSE, m |-> r.m]
             ELSE Fail

\* json.Unmarshal(input, &mdMap) with mdMap a nil map[string]string
Unmarshal(input) == Decode(input, TRUE)

(* ------------------------------ Call Context ---------------------------- *)
\* the method descriptor handed to newCallTemplateData
Mtd == [FullyQualifiedName |-> <<"p", ".", "S", ".", "M">>,
        Name |-> <<"M">>, ServiceName |-> <<"S">>,
        InputName |-> <<"I">>, OutputName |-> <<"O">>,
        IsClientStreaming |-> FALSE, IsServerStreaming |-> TRUE]

\* identifiers of the workers issuing calls
WorkerIDs == {<<"w", "1">>, <<"7">>}

\* readings of time.Now(), in nanoseconds, and generated UUIDs
Clock == {2000000}

UUIDs == {<<"u">>}

ReqNums == (-NegReq)..MaxReq

newCallTemplateData(mtd, workerID, reqNum, now, newUUID) ==
  [WorkerID           |-> workerID,
   RequestNumber      |-> reqNum,
   FullyQualifiedName |-> mtd.FullyQualifiedName,
   MethodName         |-> mtd.Name,
   ServiceName        |-> mtd.ServiceName,
   InputName          |-> mtd.InputName,
   OutputName         |-> mtd.OutputName,
   IsClientStreaming  |-> mtd.IsClientStreaming,
   IsServerStreaming  |-> mtd.IsServerStreaming,
   Timestamp          |-> Itoa(now \div 1000000000),
   TimestampUnix      |-> now \div 1000000000,
   TimestampUnixMilli |-> now \div 1000000,
   TimestampUnixNano  |-> now,
   UUID               |-> newUUID]

\* the zero value of the struct, before a worker has built its context
NoContext == newCallTemplateData(
  [FullyQualifiedName |-> <<>>, Name |-> <<>>, ServiceName |-> <<>>,
   InputName |-> <<>>, OutputName |-> <<>>,
   IsClientStreaming |-> FALSE, IsServerStreaming |-> FALSE],
  <<>>, 0, 0, <<>>)

(* --------------------------- templates (inputs) ------------------------- *)
NoExpr == [fn |-> "none"]

Text(chars) == [kind |-> "text", src |-> chars, expr |-> NoExpr]

Action(body, e) == [kind |-> "action", src |-> <<"{{", body, "}}">>, expr |-> e]

Unclosed == [kind |-> "unclosed", src |-> <<"{{">>, expr |-> NoExpr]

Field(name) == [fn |-> "field", name |-> name]

RangeE(a, b, c) == [fn |-> "Range", a |-> <<a, b, c>>]

Call1(fn, sub) == [fn |-> fn, sub |-> sub]

JsonOpen == Text(<<"{", Quote, "k", Quote, ":", Quote>>)

JsonClose == Text(<<Quote, "}">>)

\* the template strings handed to executeData / executeMetadata
Templates == <<
  <<>>,
  <<Text(<<"h", "i">>)>>,
  <<JsonOpen, Action(".WorkerID", Field("WorkerID")), JsonClose>>,
  <<Text(<<"n", "o", "t", "-", "j", "s", "o", "n">>)>>,
  <<Text(<<"n", "u", "l", "l">>)>>,
  <<Text(<<"{", Quote, "k", Quote, ":", "n", "u", "l", "l", "}">>)>>,
  <<Text(<<"{", Quote, "k", Quote, ":", "1", "}">>)>>,
  <<Text(<<"{", "}">>)>>,
  <<JsonOpen, Action("ToInt .WorkerID", Call1("ToInt", Field("WorkerID"))),
    JsonClose>>,
  <<Text(<<"a">>),
    Action("RoundRobin (Range 1 1 1)", Call1("RoundRobin", RangeE(1, 1, 1))),
    Text(<<"b">>)>>,
  <<Action("RoundRobin (Range 0 2 1)", Call1("RoundRobin", RangeE(0, 2, 1)))>>,
  <<Text(<<"x">>),
    Action("RandomChoice (Range 1 1 1)", Call1("RandomChoice", RangeE(1, 1, 1)))>>,
  <<Action("RandomChoice (Range 0 2 1)", Call1("RandomChoice", RangeE(0, 2, 1)))>>,
  <<Text(<<"n">>), Action("RandomInt 3 1", [fn |-> "RandomInt", a |-> <<3, 1>>])>>,
  <<JsonOpen, Action("RandomInt 0 2", [fn |-> "RandomInt", a |-> <<0, 2>>]),
    JsonClose>>,
  <<JsonOpen, Action("RandomSlice (Range 0 2 1)",
                     Call1("RandomSlice", RangeE(0, 2, 1))), JsonClose>>,
  <<Action(".RequestNumber", Field("RequestNumber")),
    Action("Range 0 -2 1", RangeE(0, -2, 1))>>,
  <<Action("Nope", [fn |-> "Nope"])>>,
  <<JsonOpen, Action("Nope .WorkerID", Call1("Nope", Field("WorkerID"))),
    JsonClose>>,
  <<Text(<<"a">>), Unclosed>>
>>

NumTemplates == Len(Templates)

\* the template string itself: the concatenated source text of its segments
RECURSIVE Literal(_)
Literal(segs) == IF segs = <<>> THEN <<>>
                 ELSE Head(segs).src \o Literal(Tail(segs))

(* ----------------------------- text/template ---------------------------- *)
FuncMap == {"Range", "ToInt", "RandomChoice", "RandomSlice", "RandomSliceK",
            "RandomInt", "RoundRobin"}

StringFields == {"WorkerID", "FullyQualifiedName", "MethodName", "ServiceName",
                 "InputName", "OutputName", "Timestamp", "UUID"}

IntFields == {"RequestNumber", "TimestampUnix", "TimestampUnixMilli",
              "TimestampUnixNano"}

RECURSIVE ExprDefined(_)
ExprDefined(e) ==
  CASE e.fn = "field" -> TRUE
    [] e.fn \in {"Range", "RandomInt"} -> TRUE
    [] e.fn \in FuncMap \ {"Range", "RandomInt"} -> ExprDefined(e.sub)
    [] OTHER -> FALSE

\* Parse: an unclosed action or a function that is not in the FuncMap is an
\* error
Parse(segs) ==
  IF \E i \in 1..Len(segs) :
        \/ segs[i].kind = "unclosed"
        \/ segs[i].kind = "action" /\ ~ExprDefined(segs[i].expr)
  THEN "parse error" ELSE NoErr

\* what fmt.Fprint writes for a pipeline value
RECURSIVE JoinSpace(_)
JoinSpace(l) == IF l = <<>> THEN <<>>
                ELSE IF Len(l) = 1 THEN l[1]
                ELSE l[1] \o <<" ">> \o JoinSpace(Tail(l))

FormatValue(val) ==
  CASE val.t = "str"  -> val.v
    [] val.t = "int"  -> Itoa(val.v)
    [] val.t = "list" -> <<"[">> \o JoinSpace(val.v) \o <<"]">>

FieldVal(td, name) ==
  IF name \in IntFields THEN [t |-> "int", v |-> td[name]]
  ELSE [t |-> "str", v |-> td[name]]

Res(t, x, td, n) == [val |-> [t |-> t, v |-> x.val], err |-> x.err, td |-> td,
                     n |-> n]

\* evaluation of one pipeline; ra, rb are the raw outputs of the random
\* source, n counts the library functions called; a panic inside a function
\* is recovered by the template package and becomes the execution error
RECURSIVE Eval(_, _, _, _)
Eval(e, td, ra, rb) ==
  IF e.fn = "field"
  THEN [val |-> FieldVal(td, e.name), err |-> NoErr, td |-> td, n |-> 0]
  ELSE IF e.fn = "Range"
  THEN Res("list", Range(e.a[1], e.a[2], e.a[3]), td, 1)
  ELSE IF e.fn = "RandomInt"
  THEN Res("str", RandomInt(e.a[1], e.a[2], ra), td, 1)
  ELSE LET s == Eval(e.sub, td, ra, rb)
       IN IF s.err # NoErr THEN s
          ELSE CASE e.fn = "ToInt" ->
                      Res("int", ToInt(s.val.v), s.td, s.n + 1)
                 [] e.fn = "RandomChoice" ->
                      Res("str", RandomChoice(s.val.v, ra), s.td, s.n + 1)
                 [] e.fn = "RandomSlice" ->
                      Res("list", RandomSlice(s.val.v, ra, rb), s.td, s.n + 1)
                 [] e.fn = "RandomSliceK" ->
                      Res("list", RandomSliceK(s.val.v, e.k, ra), s.td, s.n + 1)
                 [] e.fn = "RoundRobin" ->
                      LET x == RoundRobin(s.val.v, s.td)
                      IN Res("str", x, x.td, s.n + 1)

\* one step of t.Execute(&tpl, td): text is copied, an action is evaluated
\* and printed; on an error the buffer keeps what was written before it
ExecSegment(seg, td, buf, ra, rb) ==
  IF seg.kind = "text"
  THEN [buf |-> buf \o seg.src, err |-> NoErr, td |-> td, n |-> 0]
  ELSE LET x == Eval(seg.expr, td, ra, rb)
       IN [buf |-> IF x.err = NoErr THEN buf \o FormatValue(x.val) ELSE buf,
           err |-> x.err, td |-> x.td, n |-> x.n]

(* ------------------------------ entry points ---------------------------- *)
\* len(data) > 0
AlwaysRender(data) == TRUE

NeedsRender(data) == Len(data) > 0

NilMap == [nil |-> TRUE, m |-> <<>>]

Return(bytes, md, err) == [kind |-> "return", bytes |-> bytes, md |-> md,
                           err |-> err]

Panic == [kind |-> "panic", bytes |-> <<>>, md |-> NilMap, err |-> NoErr]

NoResult == [kind |-> "none", bytes |-> <<>>, md |-> NilMap, err |-> NoErr]

\* executeData after execute returned (tpl, err)
executeDataKeepBuffer(data, tpl, err) == Return(tpl, NilMap, NoErr)

executeDataReturn(data, tpl, err) ==
  LET input == IF err = NoErr THEN tpl ELSE data
  IN Return(input, NilMap, NoErr)

\* executeMetadata after execute returned (tpl, err)
executeMetadataReturn(metadata, tpl, err) ==
  LET input == IF err = NoErr THEN tpl ELSE metadata
      u == Unmarshal(input)
  IN IF u.err # NoErr THEN Return(<<>>, NilMap, u.err)
     ELSE Return(<<>>, [nil |-> u.nil, m |-> u.m], NoErr)

(* ------------------------------ state machine --------------------------- *)
VARIABLES
  ctx,      \* ctx[w]: the Call Context (td) worker w renders against
  built,    \* built[w]: that Call Context as newCallTemplateData returned it
  pc,       \* pc[w]: "idle", "ready", "parse", "exec" or "done"
  entry,    \* entry[w]: "data" or "metadata", the entry point being run
  tmpl,     \* tmpl[w]: index in Templates of the template string (0: none)
  pos,      \* pos[w]: the next segment t.Execute works on
  buf,      \* buf[w]: the bytes.Buffer tpl
  execErr,  \* execErr[w]: the error of t.Execute
  parsed,   \* parsed[w]: whether Parse was invoked for this render
  calls,    \* calls[w]: library functions called during this render
  result,   \* result[w]: what the entry point returned (or that it panicked)
  lib       \* the last direct call of a library function, with its result

vars == <<ctx, built, pc, entry, tmpl, pos, buf, execErr, parsed, calls,
          result, lib>>

renderVars == <<ctx, built, pc, entry, tmpl, pos, buf, execErr, parsed, calls,
                result>>

NoCall == [fn |-> "none", values |-> <<>>, args |-> <<>>, td |-> NoContext,
           out |-> <<>>, err |-> NoErr]

Segs(w) == IF tmpl[w] = 0 THEN <<>> ELSE Templates[tmpl[w]]

Data(w) == Literal(Segs(w))

Init ==
  /\ ctx = [w \in WorkerIDs |-> NoContext]
  /\ built = [w \in WorkerIDs |-> NoContext]
  /\ pc = [w \in WorkerIDs |-> "idle"]
  /\ entry = [w \in WorkerIDs |-> "none"]
  /\ tmpl = [w \in WorkerIDs |-> 0]
  /\ pos = [w \in WorkerIDs |-> 1]
  /\ buf = [w \in WorkerIDs |-> <<>>]
  /\ execErr = [w \in WorkerIDs |-> NoErr]
  /\ parsed = [w \in WorkerIDs |-> FALSE]
  /\ calls = [w \in WorkerIDs |-> 0]
  /\ result = [w \in WorkerIDs |-> NoResult]
  /\ lib = NoCall

\* a worker builds the Call Context of its next call
NewCall(w) ==
  /\ pc[w] = "idle"
  /\ \E reqNum \in ReqNums, now \in Clock, u \in UUIDs :
       LET td == newCallTemplateData(Mtd, w, reqNum, now, u)
       IN /\ ctx' = [ctx EXCEPT ![w] = td]
          /\ built' = [built EXCEPT ![w] = td]
  /\ pc' = [pc EXCEPT ![w] = "ready"]
  /\ UNCHANGED <<entry, tmpl, pos, buf, execErr, parsed, calls, result, lib>>

\* entry into executeData / executeMetadata with template string t
Enter(w, t, e, emptyResult) ==
  /\ pc[w] = "ready"
  /\ tmpl' = [tmpl EXCEPT ![w] = t]
  /\ entry' = [entry EXCEPT ![w] = e]
  /\ IF NeedsRender(Literal(Templates[t]))
     THEN /\ pc' = [pc EXCEPT ![w] = "parse"]
          /\ UNCHANGED result
     ELSE /\ pc' = [pc EXCEPT ![w] = "done"]
          /\ result' = [result EXCEPT ![w] = emptyResult]
  /\ UNCHANGED <<ctx, built, pos, buf, execErr, parsed, calls, lib>>

CallExecuteData(w) ==
  \E t \in 1..NumTemplates : Enter(w, t, "data", Return(<<>>, NilMap, NoErr))

CallExecuteMetadata(w) ==
  \E t \in 1..NumTemplates : Enter(w, t, "metadata", Return(<<>>, NilMap, NoErr))

\* execute: template.Must(template.New(..).Funcs(..).Parse(data))
ParseStep(w) ==
  /\ pc[w] = "parse"
  /\ parsed' = [parsed EXCEPT ![w] = TRUE]
  /\ IF Parse(Segs(w)) # NoErr
     THEN /\ pc' = [pc EXCEPT ![w] = "done"]
          /\ result' = [result EXCEPT ![w] = Panic]
     ELSE /\ pc' = [pc EXCEPT ![w] = "exec"]
          /\ UNCHANGED result
  /\ UNCHANGED <<ctx, built, entry, tmpl, pos, buf, execErr, calls, lib>>

\* execute: t.Execute(&tpl, td), one segment at a time
ExecStep(w) ==
  /\ pc[w] = "exec"
  /\ execErr[w] = NoErr
  /\ pos[w] <= Len(Segs(w))
  /\ \E ra, rb \in 0..(RndBound - 1) :
       LET x == ExecSegment(Segs(w)[pos[w]], ctx[w], buf[w], ra, rb)
       IN /\ buf' = [buf EXCEPT ![w] = x.buf]
          /\ execErr' = [execErr EXCEPT ![w] = x.err]
          /\ ctx' = [ctx EXCEPT ![w] = x.td]
          /\ calls' = [calls EXCEPT ![w] = @ + x.n]
  /\ pos' = [pos EXCEPT ![w] = @ + 1]
  /\ UNCHANGED <<built, pc, entry, tmpl, parsed, result, lib>>

\* execute returns (&tpl, err) and the entry point returns to its caller
ExecuteReturn(w) ==
  /\ pc[w] = "exec"
  /\ execErr[w] # NoErr \/ pos[w] > Len(Segs(w))
  /\ result' = [result EXCEPT ![w] =
                  IF entry[w] = "data"
                  THEN executeDataReturn(Data(w), buf[w], execErr[w])
                  ELSE executeMetadataReturn(Data(w), buf[w], execErr[w])]
  /\ pc' = [pc EXCEPT ![w] = "done"]
  /\ UNCHANGED <<ctx, built, entry, tmpl, pos, buf, execErr, parsed, calls, lib>>

\* the caller goes on to its next call (a panic does not return to it)
NextCall(w) ==
  /\ pc[w] = "done"
  /\ result[w].kind = "return"
  /\ pc' = [pc EXCEPT ![w] = "idle"]
  /\ entry' = [entry EXCEPT ![w] = "none"]
  /\ tmpl' = [tmpl EXCEPT ![w] = 0]
  /\ pos' = [pos EXCEPT ![w] = 1]
  /\ buf' = [buf EXCEPT ![w] = <<>>]
  /\ execErr' = [execErr EXCEPT ![w] = NoErr]
  /\ parsed' = [parsed EXCEPT ![w] = FALSE]
  /\ calls' = [calls EXCEPT ![w] = 0]
  /\ result' = [result EXCEPT ![w] = NoResult]
  /\ UNCHANGED <<ctx, built, lib>>

Next ==
  \E w \in WorkerIDs :
    \/ NewCall(w)
    \/ CallExecuteData(w)
    \/ CallExecuteMetadata(w)
    \/ ParseStep(w)
    \/ ExecStep(w)
    \/ ExecuteReturn(w)
    \/ NextCall(w)

Spec == Init /\ [][Next]_vars

(* ------------- the library functions called on their own --------------- *)
Letters == <<"a", "b", "c", "d", "e", "f">>

\* the sequence of n distinct one-letter strings
Values(n) == [i \in 1..n |-> <<Letters[i]>>]

Draws(n) == 0..(IF n > 1 THEN n - 1 ELSE 0)

Ints == (-MaxInt)..MaxInt

LibRange ==
  /\ \E start, end, step \in Ints :
       LET x == Range(start, end, step)
       IN lib' = [fn |-> "Range", values |-> <<>>,
                  args |-> <<start, end, step>>,
                  td |-> NoContext, out |-> x.val, err |-> x.err]
  /\ UNCHANGED renderVars

LibRoundRobin ==
  /\ \E n \in 0..MaxLen, w \in WorkerIDs, reqNum \in ReqNums,
        now \in Clock, u \in UUIDs :
       LET td == newCallTemplateData(Mtd, w, reqNum, now, u)
           x  == RoundRobin(Values(n), td)
       IN lib' = [fn |-> "RoundRobin", values |-> Values(n),
                  args |-> <<reqNum>>,
                  td |-> x.td, out |-> x.val, err |-> x.err]
  /\ UNCHANGED renderVars

LibRandomSlice ==
  /\ \E n \in 0..MaxLen :
       \E ra, rb \in Draws(n) :
         LET x == RandomSlice(Values(n), ra, rb)
         IN lib' = [fn |-> "RandomSlice", values |-> Values(n),
                    args |-> <<ra, rb>>, td |-> NoContext,
                    out |-> x.val, err |-> x.err]
  /\ UNCHANGED renderVars

LibRandomSliceK ==
  /\ \E n \in 0..MaxLen, k \in Ints :
       \E r \in Draws(n - k) :
         LET x == RandomSliceK(Values(n), k, r)
         IN lib' = [fn |-> "RandomSliceK", values |-> Values(n),
                    args |-> <<k, r>>, td |-> NoContext,
                    out |-> x.val, err |-> x.err]
  /\ UNCHANGED renderVars

NextLib ==
  \/ LibRange
  \/ LibRoundRobin
  \/ LibRandomSlice
  \/ LibRandomSliceK

SpecLib == Init /\ [][NextLib]_vars

(* -------------------------------- claims -------------------------------- *)
Done(w, e) == pc[w] = "done" /\ entry[w] = e

\* C1: executeData on a non-empty template whose execution fails on a
\* library-function error returns exactly the literal template bytes and a
\* nil error, never the partially rendered buffer.
C1_DataFallsBackToLiteral ==
  \A w \in WorkerIDs :
    (Done(w, "data") /\ execErr[w] # NoErr) =>
      /\ result[w].kind = "return"
      /\ result[w].bytes = Data(w)
      /\ result[w].err = NoErr

\* a data render that failed after part of the output had been written
C1_Witness ==
  \E w \in WorkerIDs :
    /\ Done(w, "data") /\ execErr[w] # NoErr
    /\ buf[w] # <<>> /\ calls[w] > 0
    /\ result[w].bytes = Data(w)

\* C2: executeMetadata returns an error and no mapping whenever execution of
\* the metadata template fails on a library-function error, also when the
\* literal template text is itself a JSON object of strings.
C2_MetadataExecErrorSurfaced ==
  \A w \in WorkerIDs :
    (Done(w, "metadata") /\ execErr[w] # NoErr) =>
      /\ result[w].kind = "return"
      /\ result[w].err # NoErr
      /\ result[w].md = NilMap

\* C3: a template that fails to parse never makes the render panic:
\* executeData returns the literal template with a nil error and
\* executeMetadata returns an error.
C3_ParseErrorNotFatal ==
  \A w \in WorkerIDs :
    (pc[w] = "done" /\ parsed[w] /\ Parse(Segs(w)) # NoErr) =>
      /\ result[w].kind = "return"
      /\ entry[w] = "data" =>
           result[w].bytes = Data(w) /\ result[w].err = NoErr
      /\ entry[w] = "metadata" => result[w].err # NoErr

\* C4: for a non-empty metadata template that renders successfully,
\* executeMetadata returns an error exactly when the rendered bytes are not
\* a JSON object of string-to-string pairs, and otherwise returns exactly
\* the mapping the bytes encode with a nil error.
C4_MetadataValidatesObject ==
  \A w \in WorkerIDs :
    (Done(w, "metadata") /\ Data(w) # <<>> /\ result[w].kind = "return"
       /\ execErr[w] = NoErr) =>
      LET obj == Decode(buf[w], FALSE)
      IN /\ result[w].err # NoErr <=> obj.err # NoErr
         /\ obj.err = NoErr =>
              result[w].md = [nil |-> FALSE, m |-> obj.m]

\* C5: rendering the empty template string never invokes the parser or a
\* library function; executeData returns empty bytes and executeMetadata an
\* empty mapping, both with a nil error.
C5_EmptyTemplateFastPath ==
  \A w \in WorkerIDs :
    (entry[w] # "none" /\ Data(w) = <<>>) =>
      /\ pc[w] = "done"
      /\ ~parsed[w] /\ calls[w] = 0
      /\ result[w].kind = "return" /\ result[w].err = NoErr
      /\ result[w].bytes = <<>>
      /\ DOMAIN result[w].md.m = {}

\* the empty metadata template has been rendered
C5_Witness ==
  \E w \in WorkerIDs :
    /\ Done(w, "metadata") /\ tmpl[w] # 0 /\ Data(w) = <<>>
    /\ result[w].kind = "return"

\* C6: for every non-empty sequence and every RequestNumber, RoundRobin
\* returns without failing the element at index RequestNumber mod len, so
\* that RequestNumber = 0..len-1 selects every element exactly once; it
\* fails on the empty sequence.
C6_RoundRobinCyclic ==
  lib.fn = "RoundRobin" =>
    LET n == Len(lib.values)
        r == lib.args[1]
    IN IF n = 0 THEN lib.err # NoErr
       ELSE /\ lib.err = NoErr
            /\ lib.out = lib.values[(((r % n) + n) % n) + 1]
            /\ \A i \in 1..n :
                 \E q \in 0..(n - 1) :
                   /\ RoundRobin(lib.values, [lib.td EXCEPT !.RequestNumber = q]).val
                        = lib.values[i]
                   /\ \A q2 \in 0..(n - 1) :
                        RoundRobin(lib.values,
                                   [lib.td EXCEPT !.RequestNumber = q2]).val
                          = lib.values[i] => q2 = q

\* C7: Range(start, end, step) is empty when step <= 0 or start >= step, and
\* otherwise returns without failing the decimal strings of start,
\* start+step, ... of all values strictly below end.
C7_RangeArithmeticSequence ==
  lib.fn = "Range" =>
    LET start == lib.args[1]
        end   == lib.args[2]
        step  == lib.args[3]
        count == IF end <= start THEN 0 ELSE ((end - start - 1) \div step) + 1
    IN /\ lib.err = NoErr
       /\ IF step <= 0 \/ start >= step THEN lib.out = <<>>
          ELSE lib.out = [i \in 1..count |-> Itoa(start + (i - 1) * step)]

\* C8: on a non-empty input RandomSlice returns without failing a non-empty
\* contiguous window values[start:end] with 0 <= start < end <= len, for
\* every pair of random indices; it fails on the empty input.
C8_RandomSliceWindow ==
  lib.fn = "RandomSlice" =>
    LET n == Len(lib.values)
    IN IF n = 0 THEN lib.err # NoErr
       ELSE /\ lib.err = NoErr
            /\ lib.out # <<>>
            /\ \E start \in 0..(n - 1), end \in 1..n :
                 /\ start < end
                 /\ lib.out = SubSeq(lib.values, start + 1, end)

\* two equal non-zero random indices: the start was moved down by one
C8_Witness ==
  /\ lib.fn = "RandomSlice" /\ Len(lib.values) >= 2
  /\ lib.args[1] = lib.args[2] /\ lib.args[1] > 0
  /\ lib.err = NoErr
  /\ lib.out = <<lib.values[lib.args[1]]>>

\* C9: for len(values) >= k > 0 RandomSliceK returns without failing a
\* contiguous window values[start:start+k] of length exactly k with
\* 0 <= start and start+k <= len (the whole sequence when len = k); it
\* fails when len(values) < k.
C9_RandomSliceKWindow ==
  lib.fn = "RandomSliceK" =>
    LET n == Len(lib.values)
        k == lib.args[1]
    IN /\ n < k => lib.err # NoErr
       /\ (n >= k /\ k > 0) =>
            /\ lib.err = NoErr
            /\ Len(lib.out) = k
            /\ \E start \in 0..(n - k) :
                 lib.out = SubSeq(lib.values, start + 1, start + k)
            /\ n = k => lib.out = lib.values

\* the whole sequence was returned for len = k
C9_Witness ==
  /\ lib.fn = "RandomSliceK" /\ lib.args[1] >= 2
  /\ Len(lib.values) = lib.args[1]
  /\ lib.err = NoErr /\ lib.out = lib.values

\* C10: no render step of any worker, failing or not, changes a field of any
\* Call Context: every context stays as newCallTemplateData built it.
C10_ContextNeverMutated ==
  \A w \in WorkerIDs : ctx[w] = built[w]

\* one worker finished a render in which RoundRobin ran and execution failed
\* while another worker is in the middle of its own render
C10_Witness ==
  \E w, v \in WorkerIDs :
    /\ w # v
    /\ pc[w] = "done" /\ execErr[w] # NoErr /\ calls[w] >= 2
    /\ ctx[w].RequestNumber # 0
    /\ pc[v] = "exec" /\ pos[v] > 1

====
